---- MODULE Spec2Model ----
(***************************************************************************)
(* scan-stream: the resumable server-sent-event client (src/src/sse.rs)    *)
(* and the job-status state machine of the yew component (src/src/app.rs). *)
(*                                                                         *)
(* Option<T> is a sequence of length 0 (None) or 1 (Some).  A String is a  *)
(* sequence of lexemes: the URL delimiters "?", "&", "=", "#" are lexemes  *)
(* of their own, every other lexeme is a run of ordinary characters.       *)
(* A performance.now() reading in milliseconds is [wraps, ms], standing    *)
(* for wraps * 2^32 + ms, so that readings of 2^32 ms and more exist       *)
(* without leaving the range of the model checker's integers.              *)
(***************************************************************************)
EXTENDS Integers, Sequences, FiniteSets, TLC

\* ------------------------------------------------------------------ bounds
MaxScanId == 2      \* scan ids 1..MaxScanId appear on the wire
MaxBatch == 2       \* notifications per inbound payload: 0..MaxBatch
MaxPos == 2         \* positions of the server's event stream
MaxConns == 2       \* EventSource objects ever constructed
MaxClock == 1       \* clock advances of ClockStep milliseconds
MaxWraps == 1       \* clock advances of 2^32 milliseconds
ClockStep == 1700   \* milliseconds per clock advance

\* ------------------------------------------------------- program constants
\* web_sys::EventSource ready states
CONNECTING == 0
OPEN == 1
CLOSED == 2
\* 2^32 = TwoPow32Secs * 1000 + TwoPow32Millis; u32::MAX % 1000 = U32MaxMillis
TwoPow32Secs == 4294967
TwoPow32Millis == 296
U32MaxMillis == 295
MillisPerSec == 1000
NanosPerMilli == 1000000

MERCURE_URL ==
    << ".well-known/mercure", "?", "topic", "=",
       "https%3A%2F%2Fsome.example.com%2Fstream" >>

None == << >>
Some(x) == << x >>
IsSome(o) == Len(o) = 1
Unwrap(o) == o[1]

ScanIds == 1 .. MaxScanId

\* ---------------------------------------------------------------- types
\* f64 milliseconds
Millis(w, m) == [wraps |-> w, ms |-> m]
ZeroMillis == Millis(0, 0)
\* now - started, for now >= started componentwise
MillisSub(a, b) == Millis(a.wraps - b.wraps, a.ms - b.ms)
MillisLeq(a, b) == a.wraps <= b.wraps /\ a.ms <= b.ms

\* std::time::Duration
Duration(s, n) == [secs |-> s, nanos |-> n]

\* enum ScanState
Scanning(started) == [tag |-> "Scanning", val |-> started]
Scanned(duration) == [tag |-> "Scanned", val |-> duration]
Failed(duration) == [tag |-> "Failed", val |-> duration]
IsTerminal(status) == status.tag \in {"Scanned", "Failed"}

\* struct Scan
Scan(id, status) == [scan_id |-> id, status |-> status]

\* enum ScanStatusState and its serde(rename_all = "lowercase") wire names
ScanStatusStates == {"Scanning", "Scanned", "Failed"}
WireName(variant) ==
    CASE variant = "Scanning" -> "scanning"
      [] variant = "Scanned" -> "scanned"
      [] variant = "Failed" -> "failed"
FromWire(tag) ==
    IF \E v \in ScanStatusStates : WireName(v) = tag
    THEN Some(CHOOSE v \in ScanStatusStates : WireName(v) = tag)
    ELSE None

\* struct ScanStatus
ScanStatus(id, variant) == [scan_id |-> id, status |-> variant]

\* Display for ScanState, ScanStatusState, Scan, ScanStatus
ScanStateDisplay(status) ==
    CASE status.tag = "Scanning" -> "scanning"
      [] status.tag = "Scanned" -> "scanned"
      [] status.tag = "Failed" -> "failed"
ScanStatusStateDisplay(variant) ==
    CASE variant = "Scanning" -> "scanning"
      [] variant = "Scanned" -> "scanned"
      [] variant = "Failed" -> "failed"
ScanDisplay(scan) == << "(", scan.scan_id, ScanStateDisplay(scan.status), ")" >>
ScanStatusDisplay(e) == << "(", e.scan_id, ScanStatusStateDisplay(e.status), ")" >>

\* ------------------------------------------------------- perf_to_duration
\* amt as u64: a saturating cast; the model's values are below 2^64
AsU64Secs(amt) ==
    IF amt.wraps < 0 \/ amt.ms < 0
    THEN 0
    ELSE amt.wraps * TwoPow32Secs
         + ((amt.wraps * TwoPow32Millis + amt.ms) \div MillisPerSec)
\* (amt as u32) % 1_000: the cast saturates at u32::MAX
AsU32Millis(amt) ==
    IF amt.wraps < 0 \/ amt.ms < 0
    THEN 0
    ELSE IF amt.wraps >= 1
         THEN U32MaxMillis
         ELSE amt.ms % MillisPerSec
perf_to_duration(amt) ==
    Duration(AsU64Secs(amt), AsU32Millis(amt) * NanosPerMilli)

\* ------------------------------------------------------------ diagnostics
\* ConsoleService::log / ConsoleService::warn with the formatted text
Diag(level, text, scan, event, id) ==
    [level |-> level, text |-> text, scan |-> scan, event |-> event, id |-> id]
LogReceived(e, id) ==
    Diag("log", "received event: {}, id {}", << >>, ScanStatusDisplay(e), id)
WarnRejected(scan, e) ==
    Diag("warn", "Tried to update current {} with new event {}",
         ScanDisplay(scan), ScanStatusDisplay(e), << >>)
LogGotError(error) ==
    Diag("log", "Got error: {}", << >>, << >>, << error >>)
WarnReconnecting ==
    Diag("warn", "SSE connection lost. Reconnecting!", << >>, << >>, << >>)

\* ------------------------------------------------------------------- Msg
MsgConnectionCheck == [type |-> "ConnectionCheck"]
MsgLogError(error) == [type |-> "LogError", error |-> error]
MsgScanEvent(events, id) ==
    [type |-> "ScanEvent", scan_statuses |-> events, last_event_id |-> id]
MsgTimer == [type |-> "Timer"]

\* ------------------------------------------------------- wire payloads
\* MessageEvent.data: a JSON array of {scanId, status}, text that is not such
\* an array, or data that is not a string
UnknownTag == "Scanned_"
WireTags == {WireName(v) : v \in ScanStatusStates} \cup {UnknownTag}
WireItem(id, tag) == [scanId |-> id, status |-> tag]
WireItems == {WireItem(id, tag) : id \in ScanIds, tag \in WireTags}
RECURSIVE SeqsUpTo(_, _)
SeqsUpTo(S, n) ==
    IF n = 0
    THEN {<< >>}
    ELSE LET shorter == SeqsUpTo(S, n - 1)
         IN  shorter \cup {Append(q, x) : q \in {r \in shorter : Len(r) = n - 1}, x \in S}
JsonText(items) == [kind |-> "json", items |-> items]
GarbledText == [kind |-> "garbled", items |-> << >>]
BinaryData == [kind |-> "binary", items |-> << >>]
Payloads ==
    {JsonText(items) : items \in SeqsUpTo(WireItems, MaxBatch)}
        \cup {GarbledText, BinaryData}

\* event.data().as_string(): Ok(text) or Err(CantEncodeBinaryAsText)
DataAsText(data) ==
    IF data.kind = "binary" THEN [ok |-> FALSE, text |-> data]
                             ELSE [ok |-> TRUE, text |-> data]

\* a variant of DecodeItems that skips the elements it cannot decode
RECURSIVE DecodeItemsSkipping(_)
DecodeItemsSkipping(items) ==
    IF items = << >>
    THEN Some(<< >>)
    ELSE LET variant == FromWire(Head(items).status)
             rest == DecodeItemsSkipping(Tail(items))
         IN  IF IsSome(variant)
             THEN Some(<< ScanStatus(Head(items).scanId, Unwrap(variant)) >>
                           \o Unwrap(rest))
             ELSE rest

\* serde_json::from_str::<Vec<ScanStatus>>: all elements decode or none does
RECURSIVE DecodeItems(_)
DecodeItems(items) ==
    IF items = << >>
    THEN Some(<< >>)
    ELSE LET variant == FromWire(Head(items).status)
             rest == DecodeItems(Tail(items))
         IN  IF IsSome(variant) /\ IsSome(rest)
             THEN Some(<< ScanStatus(Head(items).scanId, Unwrap(variant)) >>
                           \o Unwrap(rest))
             ELSE None
from_str(text) ==
    IF text.kind = "json" THEN DecodeItems(text.items) ELSE None

\* the closure given to link.callback in connect_sse_task
Callback(events_text, last_event_id) ==
    IF events_text.ok
    THEN LET events == from_str(events_text.text)
         IN  IF IsSome(events)
             THEN MsgScanEvent(Unwrap(events), last_event_id)
             ELSE MsgLogError("Could not deserialize Json event.")
    ELSE MsgLogError("Something weird with event text or last message id :(")

\* the onmessage closure of EventSourceService::connect
OnMessage(data, message_id) == Callback(DataAsText(data), message_id)

\* ------------------------------------------------------------ the registry
\* a variant of EntryOrInsert that overwrites an existing entry
EntryOrInsertReset(scans, scan_id, now) ==
    (scan_id :> Scan(scan_id, Scanning(now))) @@ scans

\* a variant of EntryOrInsert that keeps only the job it inserts
EntryOrInsertEvicting(scans, scan_id, now) ==
    IF scan_id \in DOMAIN scans
    THEN scans
    ELSE scan_id :> Scan(scan_id, Scanning(now))

\* scans.entry(e.scan_id).or_insert(Scan { scan_id, status: Scanning(now) })
EntryOrInsert(scans, scan_id, now) ==
    IF scan_id \in DOMAIN scans
    THEN scans
    ELSE scans @@ (scan_id :> Scan(scan_id, Scanning(now)))

\* a variant of NextStatus that matches on the incoming status alone
NextStatusByIncoming(status, incoming, now) ==
    LET elapsed == IF status.tag = "Scanning"
                   THEN MillisSub(now, status.val)
                   ELSE ZeroMillis
    IN  CASE incoming = "Scanning" -> status
          [] incoming = "Scanned" -> Scanned(perf_to_duration(elapsed))
          [] incoming = "Failed" -> Failed(perf_to_duration(elapsed))

\* the match on (scan.status, e.status)
NextStatus(status, incoming, now) ==
    IF status.tag = "Scanning"
    THEN CASE incoming = "Scanning" -> status
           [] incoming = "Scanned" ->
                Scanned(perf_to_duration(MillisSub(now, status.val)))
           [] incoming = "Failed" ->
                Failed(perf_to_duration(MillisSub(now, status.val)))
    ELSE status

\* a variant of EventDiags that never warns
EventDiagsSilent(scan, e, id) == << LogReceived(e, id) >>

\* the diagnostics of one iteration of the for loop
EventDiags(scan, e, id) ==
    << LogReceived(e, id) >>
        \o (IF scan.status.tag = "Scanning" THEN << >> ELSE << WarnRejected(scan, e) >>)

\* a variant of ApplyEvent that only inserts a job it has not seen
ApplyEventInsertOnly(st, e, id, now) ==
    LET inserted == EntryOrInsert(st.scans, e.scan_id, now)
        scan == inserted[e.scan_id]
    IN  [scans |-> IF e.scan_id \in DOMAIN st.scans
                   THEN [inserted EXCEPT
                            ![e.scan_id].status =
                                NextStatus(scan.status, e.status, now)]
                   ELSE inserted,
         last_event_id |-> Some(id),
         console |-> st.console \o EventDiags(scan, e, id)]

\* one iteration of the for loop; st is [scans, last_event_id, console]
ApplyEvent(st, e, id, now) ==
    LET inserted == EntryOrInsert(st.scans, e.scan_id, now)
        scan == inserted[e.scan_id]
    IN  [scans |-> [inserted EXCEPT
                       ![e.scan_id].status = NextStatus(scan.status, e.status, now)],
         last_event_id |-> Some(id),
         console |-> st.console \o EventDiags(scan, e, id)]

\* a variant of ApplyEvents that goes through the batch from its last element
RECURSIVE ApplyEventsReversed(_, _, _, _)
ApplyEventsReversed(st, events, id, now) ==
    IF events = << >>
    THEN st
    ELSE ApplyEvent(ApplyEventsReversed(st, Tail(events), id, now),
                    Head(events), id, now)

\* for e in scan_statuses { ... }
RECURSIVE ApplyEvents(_, _, _, _)
ApplyEvents(st, events, id, now) ==
    IF events = << >>
    THEN st
    ELSE ApplyEvents(ApplyEvent(st, Head(events), id, now), Tail(events), id, now)

\* ------------------------------------------------------- subscription URL
LastEventIdParam == << "&", "Last-Event-ID", "=" >>
\* the url of connect_sse_task
SubscriptionUrl(last_event_id) ==
    IF IsSome(last_event_id)
    THEN MERCURE_URL \o LastEventIdParam \o Unwrap(last_event_id)
    ELSE MERCURE_URL

\* EventSource::new_with_event_source_init_dict(url, {withCredentials: true})
NewEventSource(url) ==
    [url |-> url, ready_state |-> CONNECTING, with_credentials |-> TRUE,
     onmessage |-> TRUE]

\* -------------------------------------------------- the push endpoint
\* The id the server gives the event at stream position p.  Ids are strings of
\* the server's choosing; every other one holds a URL delimiter.
EventId(p) ==
    IF p % 2 = 1 THEN << ToString(p), "&", "rev" >> ELSE << ToString(p) >>
Positions == 1 .. MaxPos
EventIds == {EventId(p) : p \in Positions}

\* the value of query parameter `name` in `url`, as a URL parser reads it: the
\* lexemes after "name=" up to the next "&" or "#"
RECURSIVE TakeValue(_)
TakeValue(rest) ==
    IF rest = << >> \/ Head(rest) \in {"&", "#"}
    THEN << >>
    ELSE << Head(rest) >> \o TakeValue(Tail(rest))
QueryParam(url, name) ==
    LET starts == {i \in 1 .. Len(url) - 2 :
                       /\ url[i] \in {"?", "&"}
                       /\ url[i + 1] = name
                       /\ url[i + 2] = "="}
    IN  IF starts = {}
        THEN None
        ELSE LET i == CHOOSE j \in starts : \A k \in starts : j <= k
             IN  Some(TakeValue(SubSeq(url, i + 3, Len(url))))

\* where the server may start a subscription: after the requested id or at any
\* earlier point (a replay); anywhere when the id is absent or unknown to it
ResumePoints(url) ==
    LET asked == QueryParam(url, "Last-Event-ID")
    IN  IF IsSome(asked) /\ Unwrap(asked) \in EventIds
        THEN 1 .. ((CHOOSE p \in Positions : EventId(p) = Unwrap(asked)) + 1)
        ELSE 1 .. (MaxPos + 1)

\* ------------------------------------------------------------------ state
VARIABLES
    scans,              \* State.scans: scan_id -> Scan
    last_event_id,      \* State.last_event_id: Option<String>
    event_source_task,  \* App.event_source_task: Option<index into sources>
    sources,            \* every EventSource constructed so far
    serverPos,          \* per EventSource: the next stream position, 0 if none
    now,                \* performance.now()
    console,            \* the diagnostics of the last handled trigger
    calls,              \* the EventSource calls of the last handled trigger
    trigger,            \* the last handled trigger (a tick or a MessageEvent)
    panicked,           \* an unwrap() has panicked
    baseline            \* SpecRedelivery: the run without the redeliveries

vars ==
    << scans, last_event_id, event_source_task, sources, serverPos, now,
       console, calls, trigger, panicked, baseline >>

\* whether a payload is a JSON array whose every status is a wire name
WellFormed(data) ==
    /\ data.kind = "json"
    /\ \A i \in 1 .. Len(data.items) :
           data.items[i].status \in {"scanning", "scanned", "failed"}

\* type: the Msg handed to update ("create" before the first one); source and
\* last_event_id: the EventSource and the id of a MessageEvent; wellformed:
\* whether its payload was well formed
Trigger(type, source, id, wellformed) ==
    [type |-> type, source |-> source, last_event_id |-> id,
     wellformed |-> wellformed]
NoTrigger == Trigger("create", 0, << >>, TRUE)

\* ------------------------------------------------------------ connecting
\* EventSourceService::connect: the constructor's Result is unwrap()ped.
\* conn is [sources, serverPos, calls, panicked, task]
Connect(srcs, pos, cs, url, constructed) ==
    IF constructed
    THEN [sources |-> Append(srcs, NewEventSource(url)),
          serverPos |-> Append(pos, 0),
          calls |-> Append(cs, << "new", Len(srcs) + 1 >>),
          panicked |-> FALSE,
          task |-> Some(Len(srcs) + 1)]
    ELSE [sources |-> srcs, serverPos |-> pos,
          calls |-> Append(cs, << "new failed", 0 >>),
          panicked |-> TRUE, task |-> None]

\* App::connect_sse_task
connect_sse_task(srcs, pos, cs, cursor, constructed) ==
    Connect(srcs, pos, cs, SubscriptionUrl(cursor), constructed)

\* a variant of DropTask that lets go of the EventSource without closing it
DropTaskLeaking(srcs, task) == srcs

\* Drop for EventSourceTask: event_source.close()
DropTask(srcs, task) ==
    IF IsSome(task)
    THEN [srcs EXCEPT ![Unwrap(task)].ready_state = CLOSED]
    ELSE srcs
DropCalls(cs, task) ==
    IF IsSome(task) THEN Append(cs, << "close", Unwrap(task) >>) ELSE cs
DropPos(pos, task) ==
    IF IsSome(task) THEN [pos EXCEPT ![Unwrap(task)] = 0] ELSE pos

\* Task::is_active for EventSourceTask
is_active(srcs, task) == srcs[task].ready_state = OPEN

NoBaseline == [scans |-> << >>, delivered |-> {}, replayed |-> FALSE]

\* ------------------------------------------------------------------ create
\* Component::create
Init ==
    \E constructed \in BOOLEAN :
        LET conn == connect_sse_task(<< >>, << >>, << >>, None, constructed)
        IN  /\ scans = << >>
            /\ last_event_id = None
            /\ event_source_task = conn.task
            /\ sources = conn.sources
            /\ serverPos = conn.serverPos
            /\ calls = conn.calls
            /\ panicked = conn.panicked
            /\ now = ZeroMillis
            /\ console = << >>
            /\ trigger = NoTrigger
            /\ baseline = NoBaseline

\* ------------------------------------------------------------------ update
\* Msg::ConnectionCheck: the assignment evaluates connect_sse_task first and
\* drops the task it replaces afterwards
NeedsReconnect ==
    IF IsSome(event_source_task)
    THEN ~is_active(sources, Unwrap(event_source_task))
    ELSE TRUE

UpdateConnectionCheck(constructed) ==
    IF NeedsReconnect
    THEN LET conn == connect_sse_task(sources, serverPos, << >>, last_event_id,
                                      constructed)
         IN  /\ console' = << WarnReconnecting >>
             /\ panicked' = conn.panicked
             /\ IF conn.panicked
                THEN /\ calls' = conn.calls
                     /\ UNCHANGED << event_source_task, sources, serverPos >>
                ELSE /\ event_source_task' = conn.task
                     /\ sources' = DropTask(conn.sources, event_source_task)
                     /\ serverPos' = DropPos(conn.serverPos, event_source_task)
                     /\ calls' = DropCalls(conn.calls, event_source_task)
             /\ UNCHANGED << scans, last_event_id >>
    ELSE /\ console' = << >>
         /\ calls' = << >>
         /\ UNCHANGED << scans, last_event_id, event_source_task, sources,
                         serverPos, panicked >>

\* a variant of UpdateLogError that forgets the resume cursor
UpdateLogErrorForgetting(error) ==
    /\ console' = << LogGotError(error) >>
    /\ calls' = << >>
    /\ last_event_id' = None
    /\ UNCHANGED << scans, event_source_task, sources, panicked >>

\* Msg::LogError
UpdateLogError(error) ==
    /\ console' = << LogGotError(error) >>
    /\ calls' = << >>
    /\ UNCHANGED << scans, last_event_id, event_source_task, sources, panicked >>

\* Msg::ScanEvent
UpdateScanEvent(scan_statuses, id) ==
    LET st == ApplyEvents([scans |-> scans, last_event_id |-> last_event_id,
                           console |-> << >>],
                          scan_statuses, id, now)
    IN  /\ scans' = st.scans
        /\ last_event_id' = st.last_event_id
        /\ console' = st.console
        /\ calls' = << >>
        /\ UNCHANGED << event_source_task, sources, panicked >>

\* Msg::Timer
UpdateTimer ==
    /\ console' = << >>
    /\ calls' = << >>
    /\ UNCHANGED << scans, last_event_id, event_source_task, sources, panicked >>

\* Component::update on a message delivered by an EventSource
Update(msg) ==
    IF msg.type = "ScanEvent"
    THEN UpdateScanEvent(msg.scan_statuses, msg.last_event_id)
    ELSE UpdateLogError(msg.error)

\* ------------------------------------------------------------------ actions
\* the interval task of Duration::new(10, 0) fires
ConnectionCheck ==
    /\ ~panicked
    /\ NeedsReconnect => Len(sources) < MaxConns
    /\ \E constructed \in BOOLEAN : UpdateConnectionCheck(constructed)
    /\ trigger' = Trigger("ConnectionCheck", 0, << >>, TRUE)
    /\ UNCHANGED << now, baseline >>

\* the interval task of Duration::new(1, 0) fires
Timer ==
    /\ ~panicked
    /\ UpdateTimer
    /\ trigger' = Trigger("Timer", 0, << >>, TRUE)
    /\ UNCHANGED << serverPos, now, baseline >>

\* an open EventSource receives the next event of its subscription
Message ==
    /\ ~panicked
    /\ \E c \in 1 .. Len(sources), data \in Payloads :
        /\ sources[c].ready_state = OPEN
        /\ sources[c].onmessage
        /\ serverPos[c] \in Positions
        /\ Update(OnMessage(data, EventId(serverPos[c])))
        /\ serverPos' = [serverPos EXCEPT ![c] = @ + 1]
        /\ trigger' = Trigger(OnMessage(data, EventId(serverPos[c])).type, c,
                              EventId(serverPos[c]), WellFormed(data))
    /\ UNCHANGED << now, baseline >>

\* the transport: a connecting EventSource becomes open
TransportOpen ==
    /\ ~panicked
    /\ \E c \in 1 .. Len(sources) :
        /\ sources[c].ready_state = CONNECTING
        /\ sources' = [sources EXCEPT ![c].ready_state = OPEN]
        /\ \E p \in ResumePoints(sources[c].url) :
               serverPos' = [serverPos EXCEPT ![c] = p]
    /\ UNCHANGED << scans, last_event_id, event_source_task, now, console,
                    calls, trigger, panicked, baseline >>

\* the transport: a network error, after which the browser reconnects
TransportError ==
    /\ ~panicked
    /\ \E c \in 1 .. Len(sources) :
        /\ sources[c].ready_state = OPEN
        /\ sources' = [sources EXCEPT ![c].ready_state = CONNECTING]
        /\ serverPos' = [serverPos EXCEPT ![c] = 0]
    /\ UNCHANGED << scans, last_event_id, event_source_task, now, console,
                    calls, trigger, panicked, baseline >>

\* the transport: a fatal error, after which the browser gives up
TransportFail ==
    /\ ~panicked
    /\ \E c \in 1 .. Len(sources) :
        /\ sources[c].ready_state \in {CONNECTING, OPEN}
        /\ sources' = [sources EXCEPT ![c].ready_state = CLOSED]
        /\ serverPos' = [serverPos EXCEPT ![c] = 0]
    /\ UNCHANGED << scans, last_event_id, event_source_task, now, console,
                    calls, trigger, panicked, baseline >>

\* performance.now() grows
ClockTick ==
    /\ ~panicked
    /\ now.ms < MaxClock * ClockStep
    /\ now' = [now EXCEPT !.ms = @ + ClockStep]
    /\ UNCHANGED << scans, last_event_id, event_source_task, sources,
                    serverPos, console, calls, trigger, panicked, baseline >>

\* performance.now() passes a multiple of 2^32 milliseconds
ClockWrap ==
    /\ ~panicked
    /\ now.wraps < MaxWraps
    /\ now' = [now EXCEPT !.wraps = @ + 1]
    /\ UNCHANGED << scans, last_event_id, event_source_task, sources,
                    serverPos, console, calls, trigger, panicked, baseline >>

Next ==
    \/ ConnectionCheck
    \/ Timer
    \/ Message
    \/ TransportOpen
    \/ TransportError
    \/ TransportFail
    \/ ClockTick

Spec == Init /\ [][Next]_vars

\* ------------------------------------------------- redelivery, two runs
\* One run receives deliveries and redeliveries (scans); the other receives the
\* same deliveries at the same times and no redelivery (baseline.scans).
Delivery(data, id) == [data |-> data, id |-> id]

\* a batch is delivered for the first time, to both runs
DeliverOriginal ==
    /\ ~panicked
    /\ Cardinality(baseline.delivered) < MaxPos
    /\ \E data \in Payloads :
        LET id == EventId(Cardinality(baseline.delivered) + 1)
            msg == OnMessage(data, id)
        IN  /\ Update(msg)
            /\ baseline' =
                 [scans |-> IF msg.type = "ScanEvent"
                            THEN ApplyEvents([scans |-> baseline.scans,
                                              last_event_id |-> None,
                                              console |-> << >>],
                                             msg.scan_statuses, id, now).scans
                            ELSE baseline.scans,
                  delivered |-> baseline.delivered \cup {Delivery(data, id)},
                  replayed |-> FALSE]
            /\ trigger' = Trigger(msg.type, 0, id, WellFormed(data))
    /\ UNCHANGED << serverPos, now >>

\* a batch delivered earlier is delivered again, to the first run only
Redeliver ==
    /\ ~panicked
    /\ \E d \in baseline.delivered :
        /\ Update(OnMessage(d.data, d.id))
        /\ trigger' = Trigger(OnMessage(d.data, d.id).type, 0, d.id,
                              WellFormed(d.data))
    /\ baseline' = [baseline EXCEPT !.replayed = TRUE]
    /\ UNCHANGED << serverPos, now >>

NextRedelivery ==
    \/ DeliverOriginal
    \/ Redeliver
    \/ ClockTick

SpecRedelivery == Init /\ [][NextRedelivery]_vars

\* the program kept running for more than 2^32 milliseconds on a transport
\* that does not fail
NextElapsed ==
    \/ ConnectionCheck
    \/ Timer
    \/ Message
    \/ TransportOpen
    \/ ClockTick
    \/ ClockWrap

SpecElapsed == Init /\ [][NextElapsed]_vars

\* the same program kept running for more than 2^32 milliseconds
NextLongRun ==
    \/ Next
    \/ ClockWrap

SpecLongRun == Init /\ [][NextLongRun]_vars

\* ==================================================================
\* properties
\* ==================================================================
IsReceivedLog(d) == d.text = "received event: {}, id {}"
IsRejectedWarn(d) == d.level = "warn" /\ d.scan # << >>
\* the (scan_id, status) pairs the last handled batch logged, in order
ReceivedLogs == SelectSeq(console, IsReceivedLog)
RejectedWarns == SelectSeq(console, IsRejectedWarn)
LoggedStatuses(id) ==
    LET mine(d) == d.event[2] = id
        logs == SelectSeq(ReceivedLogs, mine)
    IN  [i \in 1 .. Len(logs) |-> logs[i].event[3]]

\* this step handles a MessageEvent: one subscription moves on by one event
MessageStep ==
    \E c \in DOMAIN serverPos :
        /\ serverPos[c] \in Positions
        /\ serverPos' = [serverPos EXCEPT ![c] = @ + 1]

PositionOf(id) == CHOOSE p \in Positions : EventId(p) = id

\* C1 Monotonicity: once a job is Scanned(d) or Failed(d), no step of any kind
\* changes its status tag or its duration, and the job stays in the registry.
Monotonicity ==
    [][\A id \in DOMAIN scans :
          IsTerminal(scans[id].status)
              => /\ id \in DOMAIN scans'
                 /\ scans'[id].status = scans[id].status]_vars

\* C1 witness: a notification has just been applied to a job that was already
\* Scanned or Failed, and the job is still terminal.
MonotonicityWitness ==
    /\ trigger.type = "ScanEvent"
    /\ Len(RejectedWarns) >= 1
    /\ \E id \in DOMAIN scans : IsTerminal(scans[id].status)

\* C2 Resume cursor equals last batch: after a decoded batch has been handled,
\* last_event_id is the cursor delivered with that batch, whatever it held.
CursorEqualsLastBatch ==
    trigger.type = "ScanEvent" => last_event_id = Some(trigger.last_event_id)

\* C3 The resume cursor only advances: a stored cursor is never replaced by one
\* of an earlier stream position and never returns to empty.
CursorOnlyAdvances ==
    [][IsSome(last_event_id)
          => /\ IsSome(last_event_id')
             /\ PositionOf(Unwrap(last_event_id'))
                    >= PositionOf(Unwrap(last_event_id))]_vars

\* C3 as amended: once set, last_event_id never returns to empty, and a step
\* changes it only to the cursor of the decoded batch that step handles (which,
\* when the server replays, may be an earlier stream position).
CursorFollowsBatches ==
    [][/\ IsSome(last_event_id) => IsSome(last_event_id')
       /\ last_event_id' # last_event_id
            => /\ MessageStep
               /\ trigger'.type = "ScanEvent"
               /\ last_event_id' = Some(trigger'.last_event_id)]_vars

\* C3 witness: a subscription was opened asking to resume after the event at
\* position 2, and the cursor now stored is that of position 1.
CursorReplayWitness ==
    /\ \E c \in DOMAIN sources :
           QueryParam(sources[c].url, "Last-Event-ID") = Some(EventId(2))
    /\ trigger.type = "ScanEvent"
    /\ last_event_id = Some(EventId(1))

\* C4 Reconnection uses the latest cursor: the request of every subscription
\* just opened carries as Last-Event-ID exactly the value of last_event_id at
\* that moment, and none when last_event_id is empty.
SubscriptionCarriesCursor ==
    \A i \in DOMAIN calls :
        calls[i][1] = "new"
            => QueryParam(sources[calls[i][2]].url, "Last-Event-ID")
                   = last_event_id

\* C5 Idempotence: a notification applied twice in succession to a fresh
\* registry, the second time at the same or a later time, leaves what one
\* application left; and a notification that does not change the current
\* registry now does not change it at any later time either.
Notifications == {ScanStatus(id, v) : id \in ScanIds, v \in ScanStatusStates}
LaterTimes ==
    {Millis(w, k * ClockStep) : w \in now.wraps .. MaxWraps, k \in 0 .. MaxClock}
        \cap {t \in [wraps : 0 .. MaxWraps, ms : 0 .. MaxClock * ClockStep] :
                  MillisLeq(now, t)}
Apply(registry, e, t) ==
    ApplyEvent([scans |-> registry, last_event_id |-> last_event_id,
                console |-> << >>], e, EventId(1), t).scans
Idempotence ==
    \A e \in Notifications, t \in LaterTimes :
        /\ LET once == Apply(<< >>, e, now)
           IN  Apply(once, e, t) = once
        /\ Apply(scans, e, now) = scans => Apply(scans, e, t) = scans

\* C5 witness: a batch holding the same notification twice has just been
\* applied to a registry that held no other job.
IdempotenceWitness ==
    /\ trigger.type = "ScanEvent"
    /\ Len(ReceivedLogs) = 2
    /\ ReceivedLogs[1].event = ReceivedLogs[2].event
    /\ DOMAIN scans = {ReceivedLogs[1].event[2]}

\* C6 Redelivery tolerance: the run that also receives redeliveries of batches
\* delivered earlier and the run that receives only the original deliveries, at
\* the same times, hold the same registry: the same jobs, each with the same
\* status tag and the same start time or final duration.
RedeliveryTolerated == scans = baseline.scans

\* C6 witness: a batch has just been redelivered to a registry holding a
\* finished job, and a later original delivery had come in between.
RedeliveryWitness ==
    /\ baseline.replayed
    /\ Cardinality(baseline.delivered) = MaxPos
    /\ trigger.type = "ScanEvent"
    /\ trigger.last_event_id = EventId(1)
    /\ Len(ReceivedLogs) >= 1
    /\ \E id \in DOMAIN scans : IsTerminal(scans[id].status)

\* C7 Implicit origin: when a batch holds the first notification ever seen for
\* a scan id, the job exists after the step under that id; if that first
\* notification reports scanned (failed) the job is Scanned (Failed) with a
\* duration >= 0; if it reports scanning the job is Scanning(now), unless a
\* later notification of the same batch finished it, and then its duration is
\* that of a job started at the time of the batch.
IsFinishing(wire) == wire \in {"scanned", "failed"}
ImplicitOrigin ==
    [][(MessageStep /\ trigger'.type = "ScanEvent")
          => \A id \in ScanIds \ DOMAIN scans :
                LET seen == [i \in 1 .. Len(LoggedStatuses(id)') |->
                                LoggedStatuses(id)'[i]]
                IN  Len(seen) >= 1
                      => /\ id \in DOMAIN scans'
                         /\ scans'[id].scan_id = id
                         /\ seen[1] = "scanned"
                              => /\ scans'[id].status.tag = "Scanned"
                                 /\ scans'[id].status.val.secs >= 0
                                 /\ scans'[id].status.val.nanos >= 0
                         /\ seen[1] = "failed"
                              => /\ scans'[id].status.tag = "Failed"
                                 /\ scans'[id].status.val.secs >= 0
                                 /\ scans'[id].status.val.nanos >= 0
                         /\ seen[1] = "scanning"
                              => IF \E i \in 1 .. Len(seen) : IsFinishing(seen[i])
                                 THEN /\ IsTerminal(scans'[id].status)
                                      /\ scans'[id].status.val
                                             = perf_to_duration(ZeroMillis)
                                 ELSE scans'[id].status = Scanning(now)]_vars

\* C7 witness: the only notification of the first batch a registry receives
\* reports scanned, and the job is Scanned.
ImplicitOriginWitness ==
    /\ trigger.type = "ScanEvent"
    /\ Len(console) = 1
    /\ Len(ReceivedLogs) = 1
    /\ ReceivedLogs[1].event[3] = "scanned"
    /\ DOMAIN scans = {ReceivedLogs[1].event[2]}
    /\ scans[ReceivedLogs[1].event[2]].status.tag = "Scanned"

\* C8 Dead connection is replaced: after a probe tick that found the connection
\* not live or absent, the supervisor holds the connection that tick opened.
ProbeReplacesDeadConnection ==
    (trigger.type = "ConnectionCheck" /\ console = << WarnReconnecting >>)
        => /\ IsSome(event_source_task)
           /\ << "new", Unwrap(event_source_task) >> \in {calls[i] : i \in DOMAIN calls}

\* C9 A failed subscription attempt is recovered: after an open that failed the
\* program has not terminated and the supervisor holds no connection object.
FailedOpenIsAbsorbed ==
    (\E i \in DOMAIN calls : calls[i][1] = "new failed")
        => /\ ~panicked
           /\ event_source_task = None

\* C10 Decode failure drops the whole batch: handling a MessageEvent whose
\* payload is not a well-formed array changes neither the registry nor
\* last_event_id, emits one "Got error" line and nothing else, leaves the
\* connection as it is and does not stop the program; and whenever the last
\* handled payload was such a one, the next event of an open subscription can
\* be handled.
DecodeFailureDropsBatch ==
    [][/\ (MessageStep /\ ~trigger'.wellformed)
            => /\ scans' = scans
               /\ last_event_id' = last_event_id
               /\ Len(console') = 1
               /\ console'[1].level = "log"
               /\ console'[1].text = "Got error: {}"
               /\ trigger'.type = "LogError"
               /\ event_source_task' = event_source_task
               /\ sources' = sources
               /\ ~panicked'
       /\ (/\ ~trigger.wellformed
           /\ \E c \in DOMAIN sources :
                 sources[c].ready_state = OPEN /\ serverPos[c] \in Positions)
            => ENABLED Message]_vars

\* C10 witness: an undecodable payload has just been handled by a registry that
\* holds a job and a cursor.
DecodeFailureWitness ==
    /\ ~trigger.wellformed
    /\ trigger.type = "LogError"
    /\ scans # << >>
    /\ IsSome(last_event_id)

\* C11 Single live connection: between two steps the supervisor holds at most
\* one connection and every EventSource other than the held one is closed; the
\* EventSource whose MessageEvent a step handles is the held one, before and
\* after the step, so a replaced connection delivers nothing.
Delivers(c) ==
    /\ serverPos[c] \in Positions
    /\ serverPos' = [serverPos EXCEPT ![c] = @ + 1]
SingleLiveConnection ==
    /\ [](/\ Len(event_source_task) <= 1
          /\ \A c \in DOMAIN sources :
                 event_source_task # Some(c) => sources[c].ready_state = CLOSED)
    /\ [][\A c \in DOMAIN serverPos :
              Delivers(c) => /\ event_source_task = Some(c)
                             /\ event_source_task' = Some(c)
                             /\ trigger'.source = c]_vars

\* C11 witness: the second EventSource, held in place of the first, has just
\* delivered a batch that was applied, and the first is closed.
SingleLiveConnectionWitness ==
    /\ Len(sources) = 2
    /\ event_source_task = Some(2)
    /\ sources[1].ready_state = CLOSED
    /\ trigger.type = "ScanEvent"
    /\ trigger.source = 2
    /\ scans # << >>

\* elapsed whole milliseconds as seconds and the milliseconds left over
ExactDuration(amt) ==
    Duration(amt.wraps * TwoPow32Secs
                 + ((amt.wraps * TwoPow32Millis + amt.ms) \div MillisPerSec),
             ((amt.wraps * TwoPow32Millis + amt.ms) % MillisPerSec)
                 * NanosPerMilli)

\* the tabulated transition: the tag of the next status
TabulatedTag(current, incoming) ==
    IF current = "Scanning" THEN incoming ELSE current

\* C12 Transition function: a notification for a job in Scanning(t0), handled
\* at time now, leaves Scanning(t0) when it reports scanning and yields
\* Scanned(now - t0) or Failed(now - t0) when it reports scanned or failed; a
\* job in Scanned(d) or Failed(d) is given back as it is; no entry is added,
\* no other entry changes, and the result is the same whatever else the
\* registry holds.
TransitionFunction ==
    \A id \in DOMAIN scans, v \in ScanStatusStates :
        LET current == scans[id].status
            after == Apply(scans, ScanStatus(id, v), now)
            alone == Apply(id :> scans[id], ScanStatus(id, v), now)
        IN  /\ DOMAIN after = DOMAIN scans
            /\ \A other \in DOMAIN scans \ {id} : after[other] = scans[other]
            /\ after[id] = alone[id]
            /\ after[id].scan_id = id
            /\ after[id].status.tag = TabulatedTag(current.tag, v)
            /\ after[id].status.val =
                   IF current.tag = "Scanning" /\ v # "Scanning"
                   THEN ExactDuration(MillisSub(now, current.val))
                   ELSE current.val

\* this step is a probe tick that re-opens: it constructs an EventSource, or
\* panics trying to
ReopenStep ==
    /\ trigger'.type = "ConnectionCheck"
    /\ \/ Len(sources') = Len(sources) + 1
       \/ ~panicked /\ panicked'
CallIndexes(cs, kinds) == {i \in DOMAIN cs : cs[i][1] \in kinds}

\* C13 Re-open ordering: when a probe re-opens (and the construction does not
\* fail), the existing connection is closed exactly once, and that close comes
\* before the construction of the new connection.
CloseBeforeOpen ==
    [][(ReopenStep /\ ~panicked')
          => /\ IsSome(event_source_task)
                 => Cardinality({i \in DOMAIN calls' :
                        calls'[i] = << "close", Unwrap(event_source_task) >>}) = 1
             /\ \A i \in CallIndexes(calls', {"close"}),
                   j \in CallIndexes(calls', {"new", "new failed"}) : i < j]_vars

\* C13 as amended: when a probe re-opens, the new EventSource is constructed
\* first and the existing one is closed after it, exactly once and inside the
\* same step, so that when the step ends the old one is closed and the new one
\* is held; when the construction fails nothing is closed.
OpenThenClose ==
    [][ReopenStep
          => IF panicked'
             THEN /\ calls' = << << "new failed", 0 >> >>
                  /\ sources' = sources
                  /\ event_source_task' = event_source_task
             ELSE /\ calls' = << << "new", Len(sources') >> >>
                                 \o (IF IsSome(event_source_task)
                                     THEN << << "close", Unwrap(event_source_task) >> >>
                                     ELSE << >>)
                  /\ event_source_task' = Some(Len(sources'))
                  /\ sources'[Len(sources')].ready_state = CONNECTING
                  /\ IsSome(event_source_task)
                       => sources'[Unwrap(event_source_task)].ready_state = CLOSED]_vars

\* C13 witness: a probe has just constructed the second EventSource and then
\* closed the first, which it found not open.
OpenThenCloseWitness ==
    /\ trigger.type = "ConnectionCheck"
    /\ calls = << << "new", 2 >>, << "close", 1 >> >>
    /\ event_source_task = Some(2)
    /\ sources[1].ready_state = CLOSED
    /\ sources[2].ready_state = CONNECTING

\* C14 Probe decision: a probe tick replaces the held connection exactly when
\* there is none or its ready state is not OPEN (CONNECTING counts as not live,
\* like CLOSED); a probe that finds it OPEN changes neither the connection,
\* the registry nor the cursor, and constructs nothing.
ProbeDecision ==
    [][ConnectionCheck
          => /\ (event_source_task' # event_source_task) <=> NeedsReconnect
             /\ NeedsReconnect
                  <=> (\/ event_source_task = None
                       \/ sources[Unwrap(event_source_task)].ready_state
                              \in {CONNECTING, CLOSED})
             /\ ~NeedsReconnect
                  => /\ UNCHANGED << event_source_task, sources, serverPos,
                                     scans, last_event_id >>
                     /\ calls' = << >>
                     /\ console' = << >>]_vars

\* the decoded batches that can arrive
Batches == SeqsUpTo(Notifications, MaxBatch)
\* the state of the job of notification i of a batch just before that
\* notification is applied: what the registry held, or what the first finishing
\* notification of the batch before i made of it
StateBefore(batch, i) ==
    LET id == batch[i].scan_id
        earlier == {j \in 1 .. i - 1 :
                        batch[j].scan_id = id /\ batch[j].status # "Scanning"}
    IN  IF id \in DOMAIN scans /\ IsTerminal(scans[id].status)
        THEN scans[id].status.tag
        ELSE IF earlier # {}
             THEN batch[CHOOSE j \in earlier : \A k \in earlier : j <= k].status
             ELSE "Scanning"
RejectedIn(batch) ==
    {i \in 1 .. Len(batch) : StateBefore(batch, i) # "Scanning"}
Accepted(batch) ==
    LET keep(i) == i \notin RejectedIn(batch)
        idx == SelectSeq([i \in 1 .. Len(batch) |-> i], keep)
    IN  [k \in 1 .. Len(idx) |-> batch[idx[k]]]
Handled(batch) ==
    ApplyEvents([scans |-> scans, last_event_id |-> last_event_id,
                 console |-> << >>], batch, EventId(1), now)

\* C15 Rejected transitions warn and never fail: handling a batch, every
\* notification for a job that is Scanned or Failed at that moment (a repeat of
\* the same status included) produces, right after its "received" line, one
\* warning naming the job id, its current state and the incoming status; a
\* notification for a job in Scanning produces none; nothing else is written;
\* and the registry ends as if the rejected notifications had not been in the
\* batch, the others being applied all the same.
RejectedTransitionsWarn ==
    \A batch \in Batches :
        LET st == Handled(batch)
            rejected == RejectedIn(batch)
            rank(i) == Cardinality({j \in rejected : j <= i})
        IN  /\ Len(st.console) = Len(batch) + Cardinality(rejected)
            /\ \A i \in 1 .. Len(batch) :
                  /\ IsReceivedLog(st.console[i + rank(i - 1)])
                  /\ st.console[i + rank(i - 1)].event[2] = batch[i].scan_id
                  /\ st.console[i + rank(i - 1)].level = "log"
            /\ \A i \in rejected :
                  LET d == st.console[i + rank(i)]
                  IN  /\ d.level = "warn"
                      /\ d.scan = << "(", batch[i].scan_id,
                                     WireName(StateBefore(batch, i)), ")" >>
                      /\ d.event = << "(", batch[i].scan_id,
                                      WireName(batch[i].status), ")" >>
            /\ st.scans = Handled(Accepted(batch)).scans
            /\ \A id \in DOMAIN scans :
                  IsTerminal(scans[id].status) => st.scans[id] = scans[id]

\* C15 witness: the batch just handled repeated the status of a finished job,
\* which was warned about, and then brought in another job.
RejectedTransitionsWitness ==
    /\ trigger.type = "ScanEvent"
    /\ Len(console) = 3
    /\ console[2].level = "warn"
    /\ console[2].scan[3] = console[2].event[3]
    /\ IsReceivedLog(console[3])
    /\ console[3].event[2] # console[2].event[2]
    /\ console[3].event[2] \in DOMAIN scans

\* C16 Frame of non-batch triggers: a refresh tick and a log event leave the
\* registry, the cursor and the connection unchanged; a probe tick leaves the
\* registry and the cursor unchanged; a batch leaves the connection unchanged;
\* so a step that changes the registry or the cursor handles a decoded batch.
FrameOfTriggers ==
    [][/\ Timer => UNCHANGED << scans, last_event_id, event_source_task, sources >>
       /\ (MessageStep /\ trigger'.type = "LogError")
            => UNCHANGED << scans, last_event_id, event_source_task, sources >>
       /\ ConnectionCheck => UNCHANGED << scans, last_event_id >>
       /\ (MessageStep /\ trigger'.type = "ScanEvent")
            => UNCHANGED << event_source_task, sources >>
       /\ (scans' # scans \/ last_event_id' # last_event_id)
            => (MessageStep /\ trigger'.type = "ScanEvent")]_vars

\* C16 witness: with a job in the registry and a cursor stored, a probe has
\* replaced the connection, and a log event was handled on the new one.
FrameOfTriggersWitness ==
    /\ scans # << >>
    /\ IsSome(last_event_id)
    /\ Len(sources) = 2
    /\ event_source_task = Some(2)
    /\ trigger.type = "LogError"
    /\ trigger.source = 2

\* the scan ids named by the notifications the last handled batch applied
NamedIds == {ReceivedLogs[i].event[2] : i \in 1 .. Len(ReceivedLogs)}

\* C17 Append-only registry: the registry maps each scan id it holds to one
\* entry whose scan_id is that id; no step removes a key; and a step adds only
\* keys named by the notifications of the batch it applies.
AppendOnlyRegistry ==
    /\ [](/\ DOMAIN scans \subseteq ScanIds
          /\ scans = [id \in DOMAIN scans |-> scans[id]]
          /\ \A id \in DOMAIN scans : scans[id].scan_id = id)
    /\ [][/\ DOMAIN scans \subseteq DOMAIN scans'
          /\ DOMAIN scans' # DOMAIN scans
               => /\ MessageStep
                  /\ trigger'.type = "ScanEvent"
                  /\ (DOMAIN scans' \ DOMAIN scans) \subseteq NamedIds']_vars

\* C17 witness: a batch naming one job has just added it to a registry that
\* held another job, which is still there.
AppendOnlyWitness ==
    /\ trigger.type = "ScanEvent"
    /\ Cardinality(NamedIds) = 1
    /\ Cardinality(DOMAIN scans) = 2
    /\ \E id \in NamedIds : scans[id].status = Scanning(now)
    /\ \E id \in DOMAIN scans \ NamedIds : IsTerminal(scans[id].status)

\* the statuses a batch reports for one scan id, in array order
StatusesFor(batch, id) ==
    LET mine(e) == e.scan_id = id
        es == SelectSeq(batch, mine)
    IN  [i \in 1 .. Len(es) |-> es[i].status]
Finishing(statuses) == {i \in DOMAIN statuses : statuses[i] # "Scanning"}
FirstFinishing(statuses) ==
    statuses[CHOOSE i \in Finishing(statuses) :
                 \A j \in Finishing(statuses) : i <= j]

\* C18 One clock reading per batch, applied in order: handling a batch at time
\* now, the notifications are logged and applied in array order; every job the
\* batch brings in and leaves in progress starts at now; a job first seen and
\* finished inside the batch gets duration exactly 0; and for a job the batch
\* names several times the first scanned or failed decides its final status.
OneReadingInOrder ==
    \A batch \in Batches :
        LET st == Handled(batch)
            logs == SelectSeq(st.console, IsReceivedLog)
        IN  /\ Len(logs) = Len(batch)
            /\ \A i \in 1 .. Len(batch) :
                  logs[i].event = << "(", batch[i].scan_id,
                                     WireName(batch[i].status), ")" >>
            /\ \A id \in ScanIds :
                  LET statuses == StatusesFor(batch, id)
                  IN  Len(statuses) >= 1
                        => /\ id \in DOMAIN st.scans
                           /\ IF id \in DOMAIN scans
                                 /\ IsTerminal(scans[id].status)
                              THEN st.scans[id] = scans[id]
                              ELSE IF Finishing(statuses) = {}
                              THEN st.scans[id].status =
                                     IF id \in DOMAIN scans
                                     THEN scans[id].status
                                     ELSE Scanning(now)
                              ELSE /\ st.scans[id].status.tag
                                        = FirstFinishing(statuses)
                                   /\ id \notin DOMAIN scans
                                        => st.scans[id].status.val
                                               = Duration(0, 0)

\* C18 witness: at a time after 0 a batch reporting scanning and then failed
\* for one job has just been handled without a warning, and the job is Failed
\* with duration 0.
OneReadingWitness ==
    /\ trigger.type = "ScanEvent"
    /\ now.ms > 0
    /\ Len(console) = 2
    /\ Len(ReceivedLogs) = 2
    /\ ReceivedLogs[1].event[2] = ReceivedLogs[2].event[2]
    /\ ReceivedLogs[1].event[3] = "scanning"
    /\ ReceivedLogs[2].event[3] = "failed"
    /\ scans[ReceivedLogs[1].event[2]].status = Failed(Duration(0, 0))

\* the elapsed times a notification handled now can be given: now - started
\* for every whole-millisecond start up to now
ElapsedNow == {Millis(w, m) : w \in 0 .. now.wraps, m \in 0 .. now.ms}

\* C19 Duration conversion is exact for whole milliseconds: for every elapsed
\* time of ms whole milliseconds, 2^32 and above included, perf_to_duration
\* gives ms div 1000 seconds and ms mod 1000 milliseconds.
ConversionExact ==
    \A amt \in ElapsedNow : perf_to_duration(amt) = ExactDuration(amt)

====
